---- MODULE Spec2Model ----
(***************************************************************************)
(* The plotting scripts of PetrichorIT/inet (scripts/tcp_plotting*.py).    *)
(* Each script opens its configured measurement files one after another,   *)
(* reads the whole file, splits it into lines, turns every accepted        *)
(* "<x>=<y>" line into a pair of floats, and hands the two sequences to    *)
(* plt.plot; after the last file it labels the y-axis and shows the        *)
(* figure.  An exception (open() of a missing file, float() of an          *)
(* unparsable segment) is caught nowhere and ends the run.                 *)
(*                                                                         *)
(* Text is a sequence of one-character strings.  A float is the pair       *)
(* [m, e] standing for m / 10^e with no trailing zero in the fraction.     *)
(***************************************************************************)
EXTENDS Integers, Sequences, FiniteSets, TLC

\* Most lines a file of the loop scripts holds (tcp_plotting, with its
\* three files, holds one line fewer per file).
MaxLines == 3

VARIABLES script, k, pc, exists, handles, raw_data, lines, i, x, y,
          plotted, err, ylabel, shown

vars == <<script, k, pc, exists, handles, raw_data, lines, i, x, y,
          plotted, err, ylabel, shown>>

Scripts == {"tcp_plotting", "tcp_plotting2", "tcp_plotting3"}

\* The configured paths of each script, in order.
Paths(s) ==
    CASE s = "tcp_plotting" ->
           << "results/client_congestion_window.out",
              "results/client_ssthresh.out",
              "results/connector_traffic.out" >>
      [] s = "tcp_plotting2" ->
           << "results/client_rto_65.out", "results/client_rto_66.out" >>
      [] s = "tcp_plotting3" ->
           << "results/connector_drop.out",
              "results/connector_drops_per_sec.out" >>

NumPaths(s) == Len(Paths(s))

None == "none"
ResourceNotFound == "ResourceNotFound"
ParseFailure == "ParseFailure"

NL == "\n"

-----------------------------------------------------------------------------
(* line == "#" in place of line.startswith("#"). *)
IsCommentWholeLine(line) == line = << "#" >>

(* str.startswith("#") *)
IsComment(line) == Len(line) >= 1 /\ line[1] = "#"

(* str.split(sep): the pieces between the separators, empty pieces kept. *)

RECURSIVE SplitAcc(_, _, _, _)
SplitAcc(s, sep, cur, p) ==
    IF p > Len(s) THEN << cur >>
    ELSE IF s[p] = sep THEN << cur >> \o SplitAcc(s, sep, << >>, p + 1)
    ELSE SplitAcc(s, sep, Append(cur, s[p]), p + 1)

Split(s, sep) == SplitAcc(s, sep, << >>, 1)

(* line.split("=") with at most one split, as split("=", 1) would do. *)
SplitEqOnce(line) ==
    IF \E p \in 1..Len(line) : line[p] = "="
    THEN LET p == CHOOSE q \in 1..Len(line) :
                    /\ line[q] = "="
                    /\ \A r \in 1..(q - 1) : line[r] # "="
         IN  << SubSeq(line, 1, p - 1), SubSeq(line, p + 1, Len(line)) >>
    ELSE << line >>

(* split = line.split("=") *)
SplitEq(line) == Split(line, "=")

(* str.strip(): whitespace removed from both ends. *)

Whitespace == {" ", "\t", "\r"}

RECURSIVE LStrip(_)
LStrip(s) ==
    IF Len(s) >= 1 /\ s[1] \in Whitespace THEN LStrip(Tail(s)) ELSE s

RECURSIVE RStrip(_)
RStrip(s) ==
    IF Len(s) >= 1 /\ s[Len(s)] \in Whitespace
    THEN RStrip(SubSeq(s, 1, Len(s) - 1)) ELSE s

Strip(s) == RStrip(LStrip(s))

(* float(str) on unsigned decimal literals: digits, at most one ".", at    *)
(* least one digit.  Any other text raises ValueError.                     *)

Digits == {"0", "1", "2", "3", "4", "5", "6", "7", "8", "9"}

DigitVal(c) ==
    CASE c = "0" -> 0 [] c = "1" -> 1 [] c = "2" -> 2 [] c = "3" -> 3
      [] c = "4" -> 4 [] c = "5" -> 5 [] c = "6" -> 6 [] c = "7" -> 7
      [] c = "8" -> 8 [] c = "9" -> 9

FloatOK(s) ==
    /\ \A p \in 1..Len(s) : s[p] \in Digits \cup {"."}
    /\ Cardinality({p \in 1..Len(s) : s[p] = "."}) <= 1
    /\ \E p \in 1..Len(s) : s[p] \in Digits

RECURSIVE DecVal(_)
DecVal(ds) ==
    IF ds = << >> THEN 0
    ELSE 10 * DecVal(SubSeq(ds, 1, Len(ds) - 1)) + DigitVal(ds[Len(ds)])

RECURSIVE DropZeros(_)
DropZeros(ds) ==
    IF Len(ds) >= 1 /\ ds[Len(ds)] = "0"
    THEN DropZeros(SubSeq(ds, 1, Len(ds) - 1)) ELSE ds

Float(s) ==
    LET parts == Split(s, ".")
        frac  == IF Len(parts) = 2 THEN DropZeros(parts[2]) ELSE << >>
    IN  [m |-> DecVal(parts[1] \o frac), e |-> Len(frac)]

-----------------------------------------------------------------------------
(* The measurement files the runs are given: every file of at most n lines *)
(* drawn from Vocabulary, the lines joined by newlines (a last empty line  *)
(* is a file that ends in a newline).                                      *)

Vocabulary ==
    { << >>,
      << "#", "1", "=", "2" >>,
      << "1", "=", "2" >>,
      << "2", ".", "5", "0", " ", "=", " ", "1" >>,
      << "1", "=", "x" >>,
      << "x", "=" >>,
      << "1", "=", "2", "=", "1" >> }

RECURSIVE Join(_)
Join(ls) ==
    IF Len(ls) = 1 THEN ls[1] ELSE ls[1] \o << NL >> \o Join(Tail(ls))

Contents(n) ==
    { Join(ls) : ls \in UNION { [1..m -> Vocabulary] : m \in 1..n } }

MaxLinesOf(s) == IF s = "tcp_plotting" THEN MaxLines - 1 ELSE MaxLines

-----------------------------------------------------------------------------
Init ==
    /\ script \in Scripts
    /\ k = 1
    /\ pc = "open"
    /\ exists \in BOOLEAN
    /\ handles = {}
    /\ raw_data = << >>
    /\ lines = << >>
    /\ i = 0
    /\ x = << >>
    /\ y = << >>
    /\ plotted = << >>
    /\ err = None
    /\ ylabel = None
    /\ shown = FALSE

(* with open(path) as f: the path exists and the handle is acquired. *)
Open ==
    /\ pc = "open"
    /\ exists
    /\ handles' = handles \cup {k}
    /\ pc' = "read"
    /\ UNCHANGED <<script, k, exists, raw_data, lines, i, x, y, plotted,
                   err, ylabel, shown>>

(* A missing path skipped in place of raising. *)
OpenFailSkip ==
    /\ pc = "open"
    /\ ~exists
    /\ pc' = "close"
    /\ UNCHANGED <<script, k, exists, handles, raw_data, lines, i, x, y,
                   plotted, err, ylabel, shown>>

(* with open(path) as f: the path does not exist, open() raises. *)
OpenFail ==
    /\ pc = "open"
    /\ ~exists
    /\ err' = ResourceNotFound
    /\ pc' = "raised"
    /\ UNCHANGED <<script, k, exists, handles, raw_data, lines, i, x, y,
                   plotted, ylabel, shown>>

(* The read with y = [] left out. *)
ReadKeepY ==
    /\ pc = "read"
    /\ \E content \in Contents(MaxLinesOf(script)) :
         /\ raw_data' = content
         /\ lines' = Split(content, NL)
    /\ x' = << >>
    /\ y' = y
    /\ i' = 1
    /\ pc' = "line"
    /\ UNCHANGED <<script, k, exists, handles, plotted, err, ylabel, shown>>

(* The read with x.clear(); y.clear() in place of fresh lists: the lists   *)
(* handed to plot() earlier are the same objects and are emptied too.      *)
ReadClear ==
    /\ pc = "read"
    /\ \E content \in Contents(MaxLinesOf(script)) :
         /\ raw_data' = content
         /\ lines' = Split(content, NL)
    /\ x' = << >>
    /\ y' = << >>
    /\ plotted' = [j \in 1..Len(plotted) |->
                     [plotted[j] EXCEPT !.x = << >>, !.y = << >>]]
    /\ i' = 1
    /\ pc' = "line"
    /\ UNCHANGED <<script, k, exists, handles, err, ylabel, shown>>

(* raw_data = f.read(); lines = raw_data.split("\n"); x = []; y = [] *)
Read ==
    /\ pc = "read"
    /\ \E content \in Contents(MaxLinesOf(script)) :
         /\ raw_data' = content
         /\ lines' = Split(content, NL)
    /\ x' = << >>
    /\ y' = << >>
    /\ i' = 1
    /\ pc' = "line"
    /\ UNCHANGED <<script, k, exists, handles, plotted, err, ylabel, shown>>

(* if line.startswith("#"): continue *)
SkipComment ==
    /\ pc = "line"
    /\ i <= Len(lines)
    /\ IsComment(lines[i])
    /\ i' = i + 1
    /\ UNCHANGED <<script, k, pc, exists, handles, raw_data, lines, x, y,
                   plotted, err, ylabel, shown>>

(* split = line.split("="); if len(split) != 2: continue *)
SkipMalformed ==
    /\ pc = "line"
    /\ i <= Len(lines)
    /\ ~IsComment(lines[i])
    /\ Len(SplitEq(lines[i])) # 2
    /\ i' = i + 1
    /\ UNCHANGED <<script, k, pc, exists, handles, raw_data, lines, x, y,
                   plotted, err, ylabel, shown>>

(* The accepted line with x.insert(0, ...) and y.insert(0, ...). *)
AcceptPrepend ==
    /\ pc = "line"
    /\ i <= Len(lines)
    /\ ~IsComment(lines[i])
    /\ LET split == SplitEq(lines[i]) IN
         /\ Len(split) = 2
         /\ FloatOK(Strip(split[1]))
         /\ FloatOK(Strip(split[2]))
         /\ x' = << Float(Strip(split[1])) >> \o x
         /\ y' = << Float(Strip(split[2])) >> \o y
    /\ i' = i + 1
    /\ UNCHANGED <<script, k, pc, exists, handles, raw_data, lines,
                   plotted, err, ylabel, shown>>

(* x.append(float(split[0].strip())); y.append(float(split[1].strip())) *)
Accept ==
    /\ pc = "line"
    /\ i <= Len(lines)
    /\ ~IsComment(lines[i])
    /\ LET split == SplitEq(lines[i]) IN
         /\ Len(split) = 2
         /\ FloatOK(Strip(split[1]))
         /\ FloatOK(Strip(split[2]))
         /\ x' = Append(x, Float(Strip(split[1])))
         /\ y' = Append(y, Float(Strip(split[2])))
    /\ i' = i + 1
    /\ UNCHANGED <<script, k, pc, exists, handles, raw_data, lines,
                   plotted, err, ylabel, shown>>

(* The ValueError caught and the line skipped. *)
ParseFailSkip ==
    /\ pc = "line"
    /\ i <= Len(lines)
    /\ ~IsComment(lines[i])
    /\ LET split == SplitEq(lines[i]) IN
         /\ Len(split) = 2
         /\ ~FloatOK(Strip(split[1])) \/ ~FloatOK(Strip(split[2]))
    /\ i' = i + 1
    /\ UNCHANGED <<script, k, pc, exists, handles, raw_data, lines, x, y,
                   plotted, err, ylabel, shown>>

(* Both floats parsed before either append: nothing is appended when       *)
(* either float() raises.                                                  *)
ParseFailBeforeAppend ==
    /\ pc = "line"
    /\ i <= Len(lines)
    /\ ~IsComment(lines[i])
    /\ LET split == SplitEq(lines[i]) IN
         /\ Len(split) = 2
         /\ ~FloatOK(Strip(split[1])) \/ ~FloatOK(Strip(split[2]))
    /\ err' = ParseFailure
    /\ pc' = "raised"
    /\ UNCHANGED <<script, k, exists, handles, raw_data, lines, i, x, y,
                   plotted, ylabel, shown>>

(* The same two statements when a float() raises ValueError: the first     *)
(* statement raises before anything is appended, the second after x has    *)
(* been appended.                                                          *)
ParseFail ==
    /\ pc = "line"
    /\ i <= Len(lines)
    /\ ~IsComment(lines[i])
    /\ LET split == SplitEq(lines[i]) IN
         /\ Len(split) = 2
         /\ IF ~FloatOK(Strip(split[1]))
            THEN x' = x
            ELSE /\ ~FloatOK(Strip(split[2]))
                 /\ x' = Append(x, Float(Strip(split[1])))
    /\ err' = ParseFailure
    /\ pc' = "raised"
    /\ UNCHANGED <<script, k, exists, handles, raw_data, lines, i, y,
                   plotted, ylabel, shown>>

(* plt.plot(x, y), after the last line *)
Plot ==
    /\ pc = "line"
    /\ i > Len(lines)
    /\ plotted' = Append(plotted, [path |-> Paths(script)[k], x |-> x, y |-> y])
    /\ pc' = "close"
    /\ UNCHANGED <<script, k, exists, handles, raw_data, lines, i, x, y,
                   err, ylabel, shown>>

(* The file opened without a with block and never closed. *)
CloseLeak ==
    /\ pc = "close"
    /\ handles' = handles
    /\ IF k < NumPaths(script)
       THEN /\ k' = k + 1
            /\ pc' = "open"
            /\ exists' \in BOOLEAN
       ELSE /\ pc' = "ylabel"
            /\ UNCHANGED <<k, exists>>
    /\ UNCHANGED <<script, raw_data, lines, i, x, y, plotted, err, ylabel,
                   shown>>

(* The end of the with block: the handle is released; the next file, or    *)
(* the statements after the loop.                                          *)
Close ==
    /\ pc = "close"
    /\ handles' = handles \ {k}
    /\ IF k < NumPaths(script)
       THEN /\ k' = k + 1
            /\ pc' = "open"
            /\ exists' \in BOOLEAN
       ELSE /\ pc' = "ylabel"
            /\ UNCHANGED <<k, exists>>
    /\ UNCHANGED <<script, raw_data, lines, i, x, y, plotted, err, ylabel,
                   shown>>

(* plt.ylabel('cong_w') *)
YLabel ==
    /\ pc = "ylabel"
    /\ ylabel' = "cong_w"
    /\ pc' = "show"
    /\ UNCHANGED <<script, k, exists, handles, raw_data, lines, i, x, y,
                   plotted, err, shown>>

(* plt.show() *)
Show ==
    /\ pc = "show"
    /\ shown' = TRUE
    /\ pc' = "done"
    /\ UNCHANGED <<script, k, exists, handles, raw_data, lines, i, x, y,
                   plotted, err, ylabel>>

(* The exception caught around the with block and the loop continued. *)
UnwindContinue ==
    /\ pc = "raised"
    /\ handles' = {}
    /\ pc' = "close"
    /\ UNCHANGED <<script, k, exists, raw_data, lines, i, x, y, plotted,
                   err, ylabel, shown>>

(* The exception leaves the with block (the handle is released) and, being *)
(* caught nowhere, ends the script.                                        *)
Unwind ==
    /\ pc = "raised"
    /\ handles' = {}
    /\ pc' = "aborted"
    /\ UNCHANGED <<script, k, exists, raw_data, lines, i, x, y, plotted,
                   err, ylabel, shown>>

Next ==
    \/ Open
    \/ OpenFail
    \/ Read
    \/ SkipComment
    \/ SkipMalformed
    \/ Accept
    \/ ParseFail
    \/ Plot
    \/ Close
    \/ YLabel
    \/ Show
    \/ Unwind

Spec == Init /\ [][Next]_vars

-----------------------------------------------------------------------------
(* What the format says of a line, stated on the characters of the line.  *)

StartsWithHash(line) == line # << >> /\ Head(line) = "#"

CountEq(line) == Cardinality({p \in 1..Len(line) : line[p] = "="})

Accepted(line) == ~StartsWithHash(line) /\ CountEq(line) = 1

EqPos(line) == CHOOSE p \in 1..Len(line) : line[p] = "="

LeftOf(line) == Strip(SubSeq(line, 1, EqPos(line) - 1))

RightOf(line) == Strip(SubSeq(line, EqPos(line) + 1, Len(line)))

Unparsable(line) ==
    Accepted(line) /\ (~FloatOK(LeftOf(line)) \/ ~FloatOK(RightOf(line)))

AcceptedLines(ls) == SelectSeq(ls, Accepted)

XsOf(ls) == [j \in 1..Len(ls) |-> Float(LeftOf(ls[j]))]

YsOf(ls) == [j \in 1..Len(ls) |-> Float(RightOf(ls[j]))]

OnlyComments(ls) ==
    /\ ls # << >>
    /\ StartsWithHash(ls[1])
    /\ \A j \in 1..Len(ls) :
         StartsWithHash(ls[j]) \/ (j = Len(ls) /\ ls[j] = << >>)

\* The loop over the lines of the current file has ended without an error.
LoadComplete == (pc = "line" /\ i > Len(lines)) \/ pc = "close"

\* The loop is about to process lines[i].
AtLine == pc = "line" /\ i <= Len(lines)

Failed == err # None

-----------------------------------------------------------------------------
\* C1: when a load completes, the k-th (x, y) pair is the pair parsed from
\* the k-th accepted line of the file, for every k: no accepted pair is
\* reordered, duplicated or dropped by interleaved comments or skipped lines.
OrderPreserved ==
    LoadComplete =>
        /\ x = XsOf(AcceptedLines(lines))
        /\ y = YsOf(AcceptedLines(lines))

OrderPreservedWitness ==
    /\ LoadComplete
    /\ Len(x) = 2
    /\ <<x[1], y[1]>> # <<x[2], y[2]>>
    /\ \E a, b, c \in 1..Len(lines) :
         /\ a < b /\ b < c
         /\ Accepted(lines[a]) /\ ~Accepted(lines[b]) /\ Accepted(lines[c])

\* C2: a line with zero or with two or more '=' characters (a blank line and
\* the trailing empty line included) leaves x and y unchanged and raises no
\* error; the load goes on with the next line.
SkipPolicy ==
    [][(AtLine /\ CountEq(lines[i]) # 1) =>
         /\ x' = x
         /\ y' = y
         /\ err' = None
         /\ pc' = "line"
         /\ i' = i + 1
         /\ lines' = lines]_vars

SkipPolicyWitness ==
    /\ pc = "line"
    /\ i = Len(lines) + 1
    /\ Len(lines) = 3
    /\ ~StartsWithHash(lines[1]) /\ CountEq(lines[1]) = 1
    /\ ~StartsWithHash(lines[2]) /\ CountEq(lines[2]) >= 2
    /\ lines[3] = << >>
    /\ Len(x) = 1 /\ Len(y) = 1
    /\ err = None

\* C3: a line that does not start with '#', holds exactly one '=' and has a
\* side that is no float after trimming raises ParseFailure; the failure is
\* not swallowed, the load does not complete and nothing is plotted for
\* that file.
ParseFailureRaised ==
    /\ [][(AtLine /\ Unparsable(lines[i])) =>
            /\ err' = ParseFailure
            /\ pc' = "raised"
            /\ plotted' = plotted]_vars
    /\ [][err = ParseFailure =>
            /\ err' = ParseFailure
            /\ pc' = "aborted"
            /\ plotted' = plotted]_vars
    /\ [](err = ParseFailure =>
            /\ pc \in {"raised", "aborted"}
            /\ Len(plotted) = k - 1
            /\ \A j \in 1..Len(plotted) :
                 plotted[j].path # Paths(script)[k])

ParseFailureWitness ==
    /\ err = ParseFailure
    /\ pc = "aborted"
    /\ lines[i] = << "x", "=" >>
    /\ Len(x) = 1
    /\ k = 2
    /\ Len(plotted) = 1

\* C4: when a configured path does not exist the open raises
\* ResourceNotFound before any line of the file is processed, and no Series
\* is produced or plotted for that path.
ResourceNotFoundRaised ==
    /\ [][(pc = "open" /\ ~exists) =>
            /\ err' = ResourceNotFound
            /\ pc' = "raised"
            /\ UNCHANGED <<handles, raw_data, lines, i, x, y, plotted>>]_vars
    /\ [][err = ResourceNotFound =>
            /\ err' = ResourceNotFound
            /\ pc' = "aborted"
            /\ UNCHANGED <<raw_data, lines, i, x, y, plotted>>]_vars
    /\ [](err = ResourceNotFound =>
            /\ handles = {}
            /\ Len(plotted) = k - 1
            /\ \A j \in 1..Len(plotted) :
                 plotted[j].path # Paths(script)[k])

ResourceNotFoundWitness ==
    /\ err = ResourceNotFound
    /\ pc = "aborted"
    /\ k = 2
    /\ Len(plotted) = 1
    /\ Len(plotted[1].x) >= 1

\* C5: when a load completes without error, the x-sequence and the
\* y-sequence handed to plot() have the same length, the number of accepted
\* lines of the file.
AlignedAfterLoad ==
    /\ LoadComplete =>
         /\ Len(x) = Len(y)
         /\ Len(x) = Cardinality({j \in 1..Len(lines) : Accepted(lines[j])})
    /\ pc = "close" =>
         /\ Len(plotted[Len(plotted)].x) = Len(x)
         /\ Len(plotted[Len(plotted)].y) = Len(x)

AlignedAfterLoadWitness ==
    /\ pc = "close"
    /\ k = 2
    /\ Len(lines) = 3
    /\ Len(plotted[2].x) = 2
    /\ Len(plotted[1].x) = 1

\* C6: a line whose first character is '#' is never accepted, even when the
\* rest of it is a well-formed record; a file of comment lines only loads
\* to two empty sequences without error.
CommentsIgnored ==
    /\ [][(AtLine /\ StartsWithHash(lines[i])) =>
            /\ x' = x
            /\ y' = y
            /\ err' = None
            /\ pc' = "line"
            /\ i' = i + 1]_vars
    /\ [](OnlyComments(lines) =>
            /\ x = << >>
            /\ y = << >>
            /\ err # ParseFailure
            /\ pc \in {"line", "close"} => err = None)

CommentsIgnoredWitness ==
    /\ pc = "close"
    /\ OnlyComments(lines)
    /\ Len(lines) = 3
    /\ lines[2] = << "#", "1", "=", "2" >>
    /\ plotted[Len(plotted)].x = << >>
    /\ plotted[Len(plotted)].y = << >>

\* C7: once the load of a configured file has failed, no later file is
\* opened, plot() is not called again and ylabel() and show() are never
\* called; show() is reached only when every configured file was loaded and
\* plotted, in configured order.
FailedLoadIsFatal ==
    /\ [][Failed =>
            /\ err' = err
            /\ pc' = "aborted"
            /\ handles' = {}
            /\ k' = k
            /\ plotted' = plotted
            /\ ylabel' = ylabel
            /\ shown' = shown]_vars
    /\ [](Failed => ylabel = None /\ ~shown /\ Len(plotted) < NumPaths(script))
    /\ []((shown \/ ylabel # None) =>
            /\ ~Failed
            /\ Len(plotted) = NumPaths(script)
            /\ \A j \in 1..Len(plotted) : plotted[j].path = Paths(script)[j])

FailedLoadIsFatalWitness ==
    /\ pc = "aborted"
    /\ err = ParseFailure
    /\ NumPaths(script) = 3
    /\ k = 2
    /\ Len(plotted) = 1
    /\ ylabel = None
    /\ ~shown

\* C8, as stated: len(x) = len(y) in every reachable state of a load, the
\* state in which a ParseFailure is raised included.
LengthsAlwaysEqual == Len(x) = Len(y)

\* C8, amended: len(x) = len(y) before and after every line of a load and
\* when the sequences are handed to plot(); x is appended before the y side
\* is parsed, so in the state in which the y side of an accepted line
\* raises ParseFailure len(x) = len(y) + 1 (when the x side raises, the
\* lengths are equal).
LengthsEqualButAtYFailure ==
    IF err = ParseFailure /\ FloatOK(LeftOf(lines[i]))
    THEN Len(x) = Len(y) + 1
    ELSE Len(x) = Len(y)

LengthsWitness ==
    /\ err = ParseFailure
    /\ pc = "raised"
    /\ lines[i] = << "1", "=", "x" >>
    /\ Len(y) = 1
    /\ Len(x) = 2

\* C9: each file is opened, read and closed before the next is opened: at
\* most one handle is open in any state, it is released when the load
\* completes and when it fails, and none is open when the run ends.
HandleScoped ==
    /\ Cardinality(handles) <= 1
    /\ handles \subseteq {k}
    /\ pc \in {"read", "line", "close"} => handles = {k}
    /\ pc \in {"open", "ylabel", "show", "done", "aborted"} => handles = {}

HandleScopedWitness ==
    /\ pc = "aborted"
    /\ err = ParseFailure
    /\ k = 2
    /\ handles = {}

\* C10: the Series plotted for the k-th configured file holds exactly the
\* pairs accepted from that file; x and y are empty at the start of each
\* load, and a later load never changes a Series already handed to plot().
IndependentLoads ==
    /\ [][LoadComplete /\ pc = "line" =>
            plotted' = Append(plotted,
                              [path |-> Paths(script)[k],
                               x |-> XsOf(AcceptedLines(lines)),
                               y |-> YsOf(AcceptedLines(lines))])]_vars
    /\ [][\A j \in 1..Len(plotted) :
            Len(plotted') >= j /\ plotted'[j] = plotted[j]]_vars
    /\ []((pc = "line" /\ i = 1) => (x = << >> /\ y = << >>))

IndependentLoadsWitness ==
    /\ pc = "done"
    /\ Len(plotted) = 3
    /\ Len(plotted[1].x) = 2
    /\ Len(plotted[2].x) = 0
    /\ Len(plotted[3].x) = 1
    /\ plotted[3].x[1] # plotted[1].x[1]

====
